---- MODULE Spec2Model ----
(***************************************************************************)
(* A state-machine model of two parts of the dioxus repository:            *)
(*                                                                         *)
(*   packages/web/src/new.rs      WebsysDom: the edit interpreter over a   *)
(*                                builder stack, a slotmap node registry   *)
(*                                and the native tree, plus the delegated  *)
(*                                event listeners and the trigger channel. *)
(*   packages/core/src/any_props.rs   VProps: the type-erased render cell. *)
(*                                                                         *)
(* A Rust panic (unwrap/expect on None or Err, todo!(), panic!()) inside   *)
(* process_edits or inside the event handler closure ends the run the      *)
(* model follows, with the state as it was when the panic was raised:      *)
(* pc = "panicked", from which no operation is taken.                      *)
(***************************************************************************)
EXTENDS Integers, Sequences, FiniteSets, TLC

(***************************************************************************)
(* Bounds of the model.                                                    *)
(***************************************************************************)
\* native nodes the document may create besides the delegation root
MaxNodes == 4
\* height of the builder stack
MaxStack == 4
\* instructions applied over all edit streams
MaxEdits == 7
\* native events the browser dispatches
MaxEvents == 2
\* instructions applied in the runs that also dispatch events
MaxEventEdits == 5
\* render cells made
MaxCells == 2
\* elements created in the runs on widgets
MaxWidgets == 2
\* instructions applied in the runs on widgets
MaxWidgetEdits == 5
\* instructions applied in the runs on the top of the stack
MaxTopEdits == 5
\* instructions applied in the runs on the delivery of triggers
MaxDeliveryEdits == 4
\* instructions applied in the runs on the owner's use of the stack
MaxOwnerEdits == 3

(***************************************************************************)
(* Sequence helpers.                                                       *)
(***************************************************************************)
Range(s) == { s[i] : i \in 1..Len(s) }

Last(s) == s[Len(s)]

Front(s) == SubSeq(s, 1, Len(s) - 1)

RemoveAll(s, x) == SelectSeq(s, LAMBDA y : y # x)

\* index of the first occurrence of x in s, 0 when absent
IndexOf(s, x) == IF x \in Range(s) THEN CHOOSE i \in 1..Len(s) : s[i] = x /\ \A j \in 1..(i-1) : s[j] # x ELSE 0

(***************************************************************************)
(* 64-bit unsigned integers.  TLC's integers are 32 bits wide, so a u64 is *)
(* kept as four 16-bit limbs <<l3, l2, l1, l0>>, most significant first.   *)
(***************************************************************************)
Limb == 256 * 256

U64(l3, l2, l1, l0) == <<l3, l2, l1, l0>>

\* a small natural number as a u64
U64Of(n) == <<0, 0, n \div Limb, n % Limb>>

U64Zero == <<0, 0, 0, 0>>

\* v * 10 + d on four limbs; "over" is set when the result needs more than 64 bits
MulAdd10(v, d) ==
    LET t0 == v[4] * 10 + d
        t1 == v[3] * 10 + (t0 \div Limb)
        t2 == v[2] * 10 + (t1 \div Limb)
        t3 == v[1] * 10 + (t2 \div Limb)
    IN  [val |-> <<t3 % Limb, t2 % Limb, t1 % Limb, t0 % Limb>>, over |-> t3 \div Limb # 0]

\* v divided by 10: quotient and remainder
DivMod10(v) ==
    LET r3 == v[1]
        r2 == (r3 % 10) * Limb + v[2]
        r1 == (r2 % 10) * Limb + v[3]
        r0 == (r1 % 10) * Limb + v[4]
    IN  [quot |-> <<r3 \div 10, r2 \div 10, r1 \div 10, r0 \div 10>>, rem |-> r0 % 10]

Digits == <<"0", "1", "2", "3", "4", "5", "6", "7", "8", "9">>

DigitChar(d) == Digits[d + 1]

IsDigit(c) == c \in Range(Digits)

DigitVal(c) == (CHOOSE i \in 1..10 : Digits[i] = c) - 1

RECURSIVE FormatU64Rev(_)
FormatU64Rev(v) ==
    LET dm == DivMod10(v)
    IN  IF dm.quot = U64Zero THEN <<DigitChar(dm.rem)>>
        ELSE Append(FormatU64Rev(dm.quot), DigitChar(dm.rem))

\* format!("{}", v) of a u64: its decimal digits, as a sequence of characters
FormatU64(v) == FormatU64Rev(v)

None == [some |-> FALSE]

Some(x) == [some |-> TRUE, val |-> x]

RECURSIVE ParseDigits(_, _, _)
ParseDigits(s, i, acc) ==
    IF i > Len(s) THEN Some(acc)
    ELSE IF ~IsDigit(s[i]) THEN None
    ELSE LET m == MulAdd10(acc, DigitVal(s[i]))
         IN  IF m.over THEN None ELSE ParseDigits(s, i + 1, m.val)

\* str::parse::<u64>: an optional leading "+", then one or more decimal digits,
\* the value below 2^64; Some(value) or None
ParseU64(s) ==
    LET body == IF Len(s) > 0 /\ s[1] = "+" THEN Tail(s) ELSE s
    IN  IF Len(body) = 0 THEN None ELSE ParseDigits(body, 1, U64Zero)

(***************************************************************************)
(* slotmap keys.  KeyData::from_ffi takes the low 32 bits as the slot      *)
(* index and the high 32 bits, forced odd, as the version; as_ffi is       *)
(* (version << 32) | idx.                                                  *)
(***************************************************************************)
ForceOdd(l) == IF l % 2 = 0 THEN l + 1 ELSE l

KeyFromFfi(v) == [idx |-> <<v[3], v[4]>>, version |-> <<v[1], ForceOdd(v[2])>>]

KeyAsFfi(k) == <<k.version[1], k.version[2], k.idx[1], k.idx[2]>>

\* the key SlotMap::insert hands out for the first value stored: slot 1, version 1
RootKey == [idx |-> <<0, 1>>, version |-> <<0, 1>>]

(***************************************************************************)
(* The native tree.  Native nodes are numbered: HostNode is the parent of  *)
(* the delegation root in the host document, RootNode is the root element  *)
(* handed to WebsysDom::new, and the document numbers the nodes it creates *)
(* from 2 on.  kind is "element", "text", "comment", or "none" for a       *)
(* number not yet handed out.                                              *)
(***************************************************************************)
HostNode == 0

RootNode == 1

NodeIds == 0..(MaxNodes + 1)

NoNode == 0 - 1

\* the parent of n in the children map ch, NoNode when n is detached
ParentOf(ch, n) == IF \E p \in DOMAIN ch : n \in Range(ch[p]) THEN CHOOSE p \in DOMAIN ch : n \in Range(ch[p]) ELSE NoNode

RECURSIVE IsInclusiveAncestor(_, _, _)
\* a is n or an ancestor of n
IsInclusiveAncestor(ch, a, n) ==
    IF a = n THEN TRUE
    ELSE LET p == ParentOf(ch, n) IN IF p = NoNode THEN FALSE ELSE IsInclusiveAncestor(ch, a, p)

\* n taken out of the child list of its parent
Detach(ch, n) == [p \in DOMAIN ch |-> RemoveAll(ch[p], n)]

\* Node.appendChild succeeds unless the parent cannot have children (text,
\* comment) or the child is the parent or one of its ancestors
\* (HierarchyRequestError)
AppendChildOk(kd, ch, parent, child) == kd[parent] = "element" /\ ~IsInclusiveAncestor(ch, child, parent)

\* Node.appendChild: the child leaves its former parent and becomes the last child
AppendChild(ch, parent, child) == [Detach(ch, child) EXCEPT ![parent] = Append(@, child)]

\* ChildNode.replaceWith(new) on old succeeds unless new is the parent of old or
\* an ancestor of it; with old detached it does nothing
ReplaceWithOk(ch, old, new) == ParentOf(ch, old) = NoNode \/ ~IsInclusiveAncestor(ch, new, ParentOf(ch, old))

\* ChildNode.replaceWith(new) on old: new takes old's place in old's parent
ReplaceChild(ch, old, new) ==
    LET p == ParentOf(ch, old)
    IN  IF p = NoNode \/ old = new THEN ch
        ELSE LET d == Detach(ch, new)
             IN  [d EXCEPT ![p] = [i \in 1..Len(d[p]) |-> IF d[p][i] = old THEN new ELSE d[p][i]]]

VARIABLES
    stack,               \* WebsysDom.stack.list: native nodes, bottom first
    nodes,               \* WebsysDom.nodes: slotmap key -> native node
    last_node_was_text,  \* WebsysDom.last_node_was_text
    listeners,           \* WebsysDom.listeners: event type -> (count, closure)
    nodeCount,           \* the highest node number the document has handed out
    kind,                \* native node -> "element" | "text" | "comment" | "none"
    tag,                 \* native element -> tag name
    ns,                  \* native element -> "html" | "svg"
    children,            \* native node -> sequence of child nodes
    text,                \* native text node -> its data
    attrs,               \* native element -> attribute name -> value
    live,                \* native element -> live widget state (value, checked, selected)
    rootListeners,       \* listeners attached to the delegation root: <<type, closure>>
    closureCount,        \* handler closures created so far
    registered,          \* history: event type -> registrations that completed
    tasks,               \* futures spawned by the sender callback, oldest first
    chan,                \* the unbounded channel: triggers sent and not received
    received,            \* the triggers wait_for_event has returned, oldest first
    dispatched,          \* native events dispatched so far
    dropped,             \* the error log of the handler: the types of the events dropped
    pc,                  \* "idle" | "applying" (inside process_edits) | "panicked"
    step,                \* the number of instructions applied so far
    cells,               \* the boxed VProps made so far: cell -> its fields
    logged,              \* the component names an error was logged for
    ret,                 \* what the last call on a cell returned
    last                 \* the operation applied last

interpVars == <<stack, nodes, last_node_was_text>>

domVars == <<nodeCount, kind, tag, ns, children, text, attrs, live>>

listenerVars == <<listeners, rootListeners, closureCount, registered>>

eventVars == <<tasks, chan, received, dispatched, dropped>>

cellVars == <<cells, logged, ret>>

vars == <<stack, nodes, last_node_was_text, listeners, nodeCount, kind, tag, ns, children, text, attrs, live, rootListeners, closureCount, registered, tasks, chan, received, dispatched, dropped, pc, step, cells, logged, ret, last>>

\* an operation record with every field present; an operation sets the fields it has
BaseOp == [op |-> "new", id |-> U64Zero, many |-> 0, s |-> "", name |-> <<>>, value |-> <<>>, scope |-> RootKey, target |-> NoNode]

\* the value of ret before any call on a cell
NoReturn == [tag |-> "none"]

\* the live state of a widget nobody has touched
FreshLive == [value |-> <<>>, vdirty |-> FALSE, checked |-> FALSE, cdirty |-> FALSE, selected |-> FALSE, sdirty |-> FALSE]

Init ==
    /\ stack = <<>>
    /\ nodes = [k \in {RootKey} |-> RootNode]
    /\ last_node_was_text = FALSE
    /\ listeners = <<>>
    /\ nodeCount = RootNode
    /\ kind = [n \in NodeIds |-> IF n \in {HostNode, RootNode} THEN "element" ELSE "none"]
    /\ tag = [n \in NodeIds |-> IF n = HostNode THEN "body" ELSE IF n = RootNode THEN "div" ELSE ""]
    /\ ns = [n \in NodeIds |-> IF n \in {HostNode, RootNode} THEN "html" ELSE ""]
    /\ children = [n \in NodeIds |-> IF n = HostNode THEN <<RootNode>> ELSE <<>>]
    /\ text = [n \in NodeIds |-> ""]
    /\ attrs = [n \in NodeIds |-> <<>>]
    /\ live = [n \in NodeIds |-> FreshLive]
    /\ rootListeners = <<>>
    /\ closureCount = 0
    /\ registered = <<>>
    /\ tasks = <<>>
    /\ chan = <<>>
    /\ received = <<>>
    /\ dispatched = 0
    /\ dropped = <<>>
    /\ pc = "idle"
    /\ step = 0
    /\ cells = <<>>
    /\ logged = {}
    /\ ret = NoReturn
    /\ last = BaseOp

(***************************************************************************)
(* process_edits: one call applies the instructions of a stream in order.  *)
(***************************************************************************)
\* process_edits is entered
ProcessEdits ==
    /\ pc = "idle"
    /\ pc' = "applying"
    /\ last' = [BaseOp EXCEPT !.op = "process_edits"]
    /\ UNCHANGED cellVars
    /\ UNCHANGED <<interpVars, domVars, listenerVars, eventVars, step>>

\* the drain is exhausted: process_edits returns
ProcessEditsReturn ==
    /\ pc = "applying"
    /\ pc' = "idle"
    /\ last' = [BaseOp EXCEPT !.op = "return"]
    /\ UNCHANGED cellVars
    /\ UNCHANGED <<interpVars, domVars, listenerVars, eventVars, step>>

\* the next instruction of the stream is taken from the drain
Fetch ==
    /\ pc = "applying"
    /\ step < MaxEdits
    /\ step' = step + 1

\* pop as it would be if an empty stack were left as it is
StackPopSilent(s) == [panic |-> FALSE, list |-> IF Len(s) = 0 THEN s ELSE Front(s), node |-> IF Len(s) = 0 THEN NoNode ELSE Last(s)]

\* top as it would be if it gave the oldest node of the stack
StackTopOldest(s) == [panic |-> Len(s) = 0, node |-> IF Len(s) = 0 THEN NoNode ELSE s[1]]

\* Stack::top: the newest node of the stack; the call panics on an empty stack
StackTop(s) == [panic |-> Len(s) = 0, node |-> IF Len(s) = 0 THEN NoNode ELSE Last(s)]

\* Stack::pop: the stack after the pop and the node popped; unwrap panics on an empty list
StackPop(s) == [panic |-> Len(s) = 0, list |-> IF Len(s) = 0 THEN s ELSE Front(s), node |-> IF Len(s) = 0 THEN NoNode ELSE Last(s)]

\* push as it would be if an unknown id were answered with a default handle
PushLookupDefault(st, reg, id) ==
    LET key == KeyFromFfi(id)
    IN  [panic |-> FALSE, list |-> Append(st, IF key \in DOMAIN reg THEN reg[key] ELSE RootNode)]

\* WebsysDom::push: the stack after the lookup of id, and whether the lookup
\* found nothing (todo!())
PushLookup(st, reg, id) ==
    LET key == KeyFromFfi(id)
    IN  IF key \in DOMAIN reg
        THEN [panic |-> FALSE, list |-> Append(st, reg[key])]
        ELSE [panic |-> TRUE, list |-> st]

\* DomEdit::PushRoot
PushRoot(id) ==
    /\ Fetch
    /\ Len(stack) < MaxStack
    /\ LET r == PushLookup(stack, nodes, id)
       IN  stack' = r.list /\ pc' = IF r.panic THEN "panicked" ELSE pc
    /\ last' = [BaseOp EXCEPT !.op = "PushRoot", !.id = id]
    /\ UNCHANGED cellVars
    /\ UNCHANGED <<nodes, last_node_was_text, domVars, listenerVars, eventVars>>

\* DomEdit::PopRoot
PopRoot ==
    /\ Fetch
    /\ LET r == StackPop(stack)
       IN  stack' = r.list /\ pc' = IF r.panic THEN "panicked" ELSE pc
    /\ last' = [BaseOp EXCEPT !.op = "PopRoot"]
    /\ UNCHANGED cellVars
    /\ UNCHANGED <<nodes, last_node_was_text, domVars, listenerVars, eventVars>>

\* Stack::clear, which the owner of the WebsysDom calls on its public stack
\* between two streams: the stack is emptied, whatever it holds
StackClear ==
    /\ pc = "idle"
    /\ stack' = <<>>
    /\ last' = [BaseOp EXCEPT !.op = "clear"]
    /\ UNCHANGED cellVars
    /\ UNCHANGED <<nodes, last_node_was_text, domVars, listenerVars, eventVars, pc, step>>

\* Stack::push, which the owner of the WebsysDom calls on its public stack
\* between two streams with a node it holds
OwnerPush(n) ==
    /\ pc = "idle"
    /\ Len(stack) < MaxStack
    /\ n \in 0..nodeCount
    /\ stack' = Append(stack, n)
    /\ last' = [BaseOp EXCEPT !.op = "push", !.target = n]
    /\ UNCHANGED cellVars
    /\ UNCHANGED <<nodes, last_node_was_text, domVars, listenerVars, eventVars, pc, step>>

\* Stack::pop, which the owner of the WebsysDom calls on its public stack
\* between two streams
OwnerPop ==
    /\ pc = "idle"
    /\ LET r == StackPop(stack)
       IN  stack' = r.list /\ pc' = IF r.panic THEN "panicked" ELSE pc
    /\ last' = [BaseOp EXCEPT !.op = "pop"]
    /\ UNCHANGED cellVars
    /\ UNCHANGED <<nodes, last_node_was_text, domVars, listenerVars, eventVars, step>>

\* the state one iteration of append_children's loop works on
AppendState(st, fl, cnt, kd, ch, pn, ov) ==
    [stack |-> st, flag |-> fl, nodeCount |-> cnt, kind |-> kd, children |-> ch, panic |-> pn, over |-> ov]

\* one iteration of the loop of append_children: pop the child, put a comment
\* under the node now on top of the stack when this and the previous child are
\* both text, append the child to root
AppendOne(a, root) ==
    LET child    == Last(a.stack)
        st       == Front(a.stack)
        isText   == a.kind[child] = "text"
        marker   == isText /\ a.flag
        comment  == a.nodeCount + 1
        cnt      == IF marker THEN comment ELSE a.nodeCount
        kd       == IF marker /\ comment \in NodeIds THEN [a.kind EXCEPT ![comment] = "comment"] ELSE a.kind
        top      == Last(st)
    IN  IF marker /\ comment \notin NodeIds
        THEN [a EXCEPT !.over = TRUE]
        ELSE IF marker /\ ~AppendChildOk(kd, a.children, top, comment)
        THEN AppendState(st, a.flag, cnt, kd, a.children, TRUE, FALSE)
        ELSE LET ch1 == IF marker THEN AppendChild(a.children, top, comment) ELSE a.children
             IN  IF ~AppendChildOk(kd, ch1, root, child)
                 THEN AppendState(st, isText, cnt, kd, ch1, TRUE, FALSE)
                 ELSE AppendState(st, isText, cnt, kd, AppendChild(ch1, root, child), FALSE, FALSE)

RECURSIVE AppendLoop(_, _, _)
\* the remaining k iterations of the loop of append_children
AppendLoop(a, root, k) ==
    IF k = 0 \/ a.panic \/ a.over THEN a ELSE AppendLoop(AppendOne(a, root), root, k - 1)

\* DomEdit::AppendChildren
AppendChildren(many) ==
    /\ Fetch
    /\ last' = [BaseOp EXCEPT !.op = "AppendChildren", !.many = many]
    /\ UNCHANGED cellVars
    /\ IF Len(stack) < 1 + many
       THEN \* the index underflows (debug build) or get() finds nothing to unwrap
            /\ pc' = "panicked"
            /\ UNCHANGED <<stack, last_node_was_text, nodeCount, kind, children>>
       ELSE LET root == stack[Len(stack) - many]
                r    == AppendLoop(AppendState(stack, last_node_was_text, nodeCount, kind, children, FALSE, FALSE), root, many)
            IN  /\ ~r.over
                /\ stack' = r.stack
                /\ last_node_was_text' = r.flag
                /\ nodeCount' = r.nodeCount
                /\ kind' = r.kind
                /\ children' = r.children
                /\ pc' = IF r.panic THEN "panicked" ELSE pc
    /\ UNCHANGED <<nodes, tag, ns, text, attrs, live, listenerVars, eventVars>>

\* replace_with as it would be if it took the top node for the old one
ReplaceResultSwapped(st, ch, many) ==
    LET p1 == StackPop(st)
        p2 == StackPop(p1.list)
    IN  IF p1.panic \/ p2.panic
        THEN [panic |-> TRUE, list |-> p2.list, children |-> ch]
        ELSE IF many = 1 /\ ~ReplaceWithOk(ch, p1.node, p2.node)
        THEN [panic |-> TRUE, list |-> p2.list, children |-> ch]
        ELSE [panic |-> FALSE, list |-> Append(p2.list, p1.node),
              children |-> IF many = 1 THEN ReplaceChild(ch, p1.node, p2.node) ELSE ch]

\* replace_with: the two pops, the replacement when many is 1, the push
ReplaceResult(st, ch, many) ==
    LET p1 == StackPop(st)
        p2 == StackPop(p1.list)
    IN  IF p1.panic \/ p2.panic
        THEN [panic |-> TRUE, list |-> p2.list, children |-> ch]
        ELSE IF many = 1 /\ ~ReplaceWithOk(ch, p2.node, p1.node)
        THEN [panic |-> TRUE, list |-> p2.list, children |-> ch]
        ELSE [panic |-> FALSE, list |-> Append(p2.list, p1.node),
              children |-> IF many = 1 THEN ReplaceChild(ch, p2.node, p1.node) ELSE ch]

\* DomEdit::ReplaceWith
ReplaceWith(many) ==
    /\ Fetch
    /\ last' = [BaseOp EXCEPT !.op = "ReplaceWith", !.many = many]
    /\ UNCHANGED cellVars
    /\ LET r == ReplaceResult(stack, children, many)
       IN  /\ stack' = r.list
           /\ children' = r.children
           /\ pc' = IF r.panic THEN "panicked" ELSE pc
    /\ UNCHANGED <<nodes, last_node_was_text, nodeCount, kind, tag, ns, text, attrs, live, listenerVars, eventVars>>

\* DomEdit::Remove: todo!()
Remove ==
    /\ Fetch
    /\ pc' = "panicked"
    /\ last' = [BaseOp EXCEPT !.op = "Remove"]
    /\ UNCHANGED cellVars
    /\ UNCHANGED <<interpVars, domVars, listenerVars, eventVars>>

\* DomEdit::RemoveAllChildren: todo!()
RemoveAllChildren ==
    /\ Fetch
    /\ pc' = "panicked"
    /\ last' = [BaseOp EXCEPT !.op = "RemoveAllChildren"]
    /\ UNCHANGED cellVars
    /\ UNCHANGED <<interpVars, domVars, listenerVars, eventVars>>

\* the registry after a create stores node n in the slot of id: get_mut finds
\* the slot or the unwrap panics
RegisterCreated(reg, id, n) ==
    LET key == KeyFromFfi(id)
    IN  IF key \in DOMAIN reg
        THEN [panic |-> FALSE, nodes |-> [reg EXCEPT ![key] = n]]
        ELSE [panic |-> TRUE, nodes |-> reg]

\* the tail shared by create_text_node and create_element: the document makes
\* the node, it is pushed, then stored in the registry
CreateNode(name, k, tg, nspace, txt, id) ==
    /\ Fetch
    /\ Len(stack) < MaxStack
    /\ nodeCount < MaxNodes + 1
    /\ LET n == nodeCount + 1
           r == RegisterCreated(nodes, id, n)
       IN  /\ nodeCount' = n
           /\ kind' = [kind EXCEPT ![n] = k]
           /\ tag' = [tag EXCEPT ![n] = tg]
           /\ ns' = [ns EXCEPT ![n] = nspace]
           /\ text' = [text EXCEPT ![n] = txt]
           /\ stack' = Append(stack, n)
           /\ nodes' = r.nodes
           /\ pc' = IF r.panic THEN "panicked" ELSE pc
    /\ last' = [BaseOp EXCEPT !.op = name, !.id = id, !.s = IF k = "text" THEN txt ELSE tg]
    /\ UNCHANGED cellVars
    /\ UNCHANGED <<last_node_was_text, children, attrs, live, listenerVars, eventVars>>

\* DomEdit::CreateTextNode
CreateTextNode(txt, id) == CreateNode("CreateTextNode", "text", "", "", txt, id)

\* DomEdit::CreateElement
CreateElement(tg, id) == CreateNode("CreateElement", "element", tg, "html", "", id)

\* DomEdit::CreateElementNs
CreateElementNs(tg, id, nspace) == CreateNode("CreateElementNs", "element", tg, nspace, "", id)

\* DomEdit::CreatePlaceholder
CreatePlaceholder(id) == CreateNode("CreatePlaceholder", "element", "pre", "html", "", id)

(***************************************************************************)
(* Attributes, text and live widget state.  An attribute name is a         *)
(* sequence of string pieces (format!("dioxus-event-{}", event) is         *)
(* <<"dioxus-event-", event>>); an attribute value is a sequence of        *)
(* characters.                                                             *)
(***************************************************************************)
SvgNs == "svg"

IsElement(kd, n) == kd[n] = "element"

\* the tag under which an element is an HTML widget (HtmlInputElement,
\* HtmlOptionElement): elements of another namespace are none
WidgetTag(tg, nsp, n) == IF nsp[n] = "html" THEN tg[n] ELSE ""

\* f with key k bound to v
Bind(f, k, v) == [x \in DOMAIN f \cup {k} |-> IF x = k THEN v ELSE f[x]]

\* f without key k
Unbind(f, k) == [x \in DOMAIN f \ {k} |-> f[x]]

\* the live state of a widget after its content attribute name was set
\* (present) or removed: the attribute is the default the live state follows
\* until the state is dirty
LiveAfterAttr(lv, tg, name, present, val) ==
    IF tg = "input" /\ name = <<"value">> /\ ~lv.vdirty THEN [lv EXCEPT !.value = IF present THEN val ELSE <<>>]
    ELSE IF tg = "input" /\ name = <<"checked">> /\ ~lv.cdirty THEN [lv EXCEPT !.checked = present]
    ELSE IF tg = "option" /\ name = <<"selected">> /\ ~lv.sdirty THEN [lv EXCEPT !.selected = present]
    ELSE lv

\* DomEdit::SetText: Node.textContent is set on the top of the stack; on an
\* element the children are replaced by one new text node (none for "")
SetText(txt) ==
    /\ Fetch
    /\ last' = [BaseOp EXCEPT !.op = "SetText", !.s = txt]
    /\ UNCHANGED cellVars
    /\ IF StackTop(stack).panic
       THEN pc' = "panicked" /\ UNCHANGED <<nodeCount, kind, children, text>>
       ELSE LET top == StackTop(stack).node
                n   == nodeCount + 1
            IN  /\ pc' = pc
                /\ IF kind[top] # "element"
                   THEN /\ text' = [text EXCEPT ![top] = txt]
                        /\ UNCHANGED <<nodeCount, kind, children>>
                   ELSE IF txt = ""
                   THEN /\ children' = [children EXCEPT ![top] = <<>>]
                        /\ UNCHANGED <<nodeCount, kind, text>>
                   ELSE /\ nodeCount < MaxNodes + 1
                        /\ nodeCount' = n
                        /\ kind' = [kind EXCEPT ![n] = "text"]
                        /\ text' = [text EXCEPT ![n] = txt]
                        /\ children' = [children EXCEPT ![top] = <<n>>]
    /\ UNCHANGED <<interpVars, tag, ns, attrs, live, listenerVars, eventVars>>

\* set_attribute: whether the call assigns className of an SVG element, which
\* set_class_name does for "class" outside the svg arm.  SVGElement.className
\* is a read-only SVGAnimatedString: the assignment throws a TypeError that
\* nothing catches, or is ignored, and no attribute is written
SetClassNameRefused(kd, nsp, top, name, nsArg) ==
    name = <<"class">> /\ nsArg # SvgNs /\ IsElement(kd, top) /\ nsp[top] = SvgNs

\* set_attribute: whether the call writes attribute name of the top node
SetAttributeWrites(kd, nsp, top, name, nsArg) ==
    IF name = <<"class">> /\ nsArg = SvgNs
    THEN IsElement(kd, top) /\ nsp[top] = SvgNs
    ELSE IsElement(kd, top) /\ ~SetClassNameRefused(kd, nsp, top, name, nsArg)

\* DomEdit::SetAttribute
SetAttribute(name, value, nsArg) ==
    /\ Fetch
    /\ last' = [BaseOp EXCEPT !.op = "SetAttribute", !.name = name, !.value = value, !.s = nsArg]
    /\ UNCHANGED cellVars
    /\ IF StackTop(stack).panic
       THEN pc' = "panicked" /\ UNCHANGED <<attrs, live>>
       ELSE LET top == StackTop(stack).node
            IN  IF SetClassNameRefused(kind, ns, top, name, nsArg)
                THEN /\ pc' \in {"panicked", pc}
                     /\ UNCHANGED <<attrs, live>>
                ELSE /\ pc' = pc
                     /\ IF SetAttributeWrites(kind, ns, top, name, nsArg)
                        THEN /\ attrs' = [attrs EXCEPT ![top] = Bind(@, name, value)]
                             /\ live' = [live EXCEPT ![top] = LiveAfterAttr(@, WidgetTag(tag, ns, top), name, TRUE, value)]
                        ELSE UNCHANGED <<attrs, live>>
    /\ UNCHANGED <<interpVars, nodeCount, kind, tag, ns, children, text, listenerVars, eventVars>>

\* remove_attribute as it would be if it called no property setter
VolatileResetNone(lv, tg, name) == lv

\* remove_attribute: the live state after the property setters the call makes
VolatileReset(lv, tg, name) ==
    LET l1 == IF tg = "input" /\ name = <<"value">> THEN [lv EXCEPT !.value = <<>>, !.vdirty = TRUE] ELSE lv
        l2 == IF tg = "input" /\ name = <<"checked">> THEN [l1 EXCEPT !.checked = FALSE, !.cdirty = TRUE] ELSE l1
    IN  IF tg = "option" /\ name = <<"selected">> THEN [l2 EXCEPT !.selected = TRUE, !.sdirty = TRUE] ELSE l2

\* DomEdit::RemoveAttribute
RemoveAttribute(name) ==
    /\ Fetch
    /\ last' = [BaseOp EXCEPT !.op = "RemoveAttribute", !.name = name]
    /\ UNCHANGED cellVars
    /\ IF StackTop(stack).panic
       THEN pc' = "panicked" /\ UNCHANGED <<attrs, live>>
       ELSE LET top == StackTop(stack).node
            IN  /\ pc' = pc
                /\ IF IsElement(kind, top)
                   THEN /\ attrs' = [attrs EXCEPT ![top] = Unbind(@, name)]
                        /\ live' = [live EXCEPT ![top] = VolatileReset(LiveAfterAttr(@, WidgetTag(tag, ns, top), name, FALSE, <<>>), WidgetTag(tag, ns, top), name)]
                   ELSE UNCHANGED <<attrs, live>>
    /\ UNCHANGED <<interpVars, nodeCount, kind, tag, ns, children, text, listenerVars, eventVars>>

(***************************************************************************)
(* Event delegation.  An event name is the pair of its first two bytes and *)
(* the rest, so that split_at(2) is the second component.                  *)
(***************************************************************************)
SplitAt2(event_name) == event_name[2]

ReservationAttr(typ) == <<"dioxus-event-", typ>>

\* format!("{}.{}", scope_id, real_id)
FormatReservation(scope, real_id) == FormatU64(KeyAsFfi(scope)) \o <<".">> \o FormatU64(real_id)

\* registration as it would be if every registration made and attached a closure
RegisterListenerAlways(tbl, rl, cc, typ) ==
    [listeners |-> Bind(tbl, typ, [count |-> IF typ \in DOMAIN tbl THEN tbl[typ].count + 1 ELSE 1, closure |-> cc + 1]),
     rootListeners |-> Append(rl, <<typ, cc + 1>>),
     closureCount |-> cc + 1]

\* the listener table and the root's listeners after the registration of typ
RegisterListener(tbl, rl, cc, typ) ==
    IF typ \in DOMAIN tbl
    THEN [listeners |-> [tbl EXCEPT ![typ].count = @ + 1], rootListeners |-> rl, closureCount |-> cc]
    ELSE [listeners |-> Bind(tbl, typ, [count |-> 1, closure |-> cc + 1]),
          rootListeners |-> Append(rl, <<typ, cc + 1>>),
          closureCount |-> cc + 1]

\* DomEdit::NewEventListener
NewEventListener(event_name, scope, real_id) ==
    /\ Fetch
    /\ last' = [BaseOp EXCEPT !.op = "NewEventListener", !.name = event_name, !.scope = scope, !.id = real_id]
    /\ UNCHANGED cellVars
    /\ LET typ == SplitAt2(event_name)
       IN  IF StackTop(stack).panic \/ ~IsElement(kind, StackTop(stack).node)
           THEN \* top() of an empty stack, or expect("not an element")
                /\ pc' = "panicked"
                /\ UNCHANGED <<attrs, listenerVars>>
           ELSE LET r == RegisterListener(listeners, rootListeners, closureCount, typ)
                IN  /\ pc' = pc
                    /\ attrs' = [attrs EXCEPT ![StackTop(stack).node] = Bind(@, ReservationAttr(typ), FormatReservation(scope, real_id))]
                    /\ listeners' = r.listeners
                    /\ rootListeners' = r.rootListeners
                    /\ closureCount' = r.closureCount
                    /\ registered' = Bind(registered, typ, IF typ \in DOMAIN registered THEN registered[typ] + 1 ELSE 1)
    /\ UNCHANGED <<interpVars, nodeCount, kind, tag, ns, children, text, live, eventVars>>

\* DomEdit::RemoveEventListener: todo!()
RemoveEventListener(event_name) ==
    /\ Fetch
    /\ pc' = "panicked"
    /\ last' = [BaseOp EXCEPT !.op = "RemoveEventListener", !.name = event_name]
    /\ UNCHANGED cellVars
    /\ UNCHANGED <<interpVars, domVars, listenerVars, eventVars>>

(***************************************************************************)
(* Dispatch of a native event to the handler closure, decode_trigger, and  *)
(* the channel to the consumer.                                            *)
(***************************************************************************)
RECURSIVE SplitN(_, _, _)
\* str::splitn(n, sep): at most n pieces, the last one holding the rest
SplitN(s, n, sep) ==
    IF n = 1 \/ sep \notin Range(s) THEN <<s>>
    ELSE LET i == IndexOf(s, sep)
         IN  <<SubSeq(s, 1, i - 1)>> \o SplitN(SubSeq(s, i + 1, Len(s)), n - 1, sep)

ClipboardTypes == {"copy", "cut", "paste"}

CompositionTypes == {"compositionend", "compositionstart", "compositionupdate"}

KeyboardTypes == {"keydown", "keypress", "keyup"}

FocusTypes == {"focus", "blur"}

FormTypes == {"change", "input", "invalid", "reset", "submit"}

MouseTypes == {"click", "contextmenu", "doubleclick", "drag", "dragend", "dragenter", "dragexit",
               "dragleave", "dragover", "dragstart", "drop", "mousedown", "mouseenter",
               "mouseleave", "mousemove", "mouseout", "mouseover", "mouseup"}

PointerTypes == {"pointerdown", "pointermove", "pointerup", "pointercancel", "gotpointercapture",
                 "lostpointercapture", "pointerenter", "pointerleave", "pointerover", "pointerout"}

TouchTypes == {"touchcancel", "touchend", "touchmove", "touchstart"}

MediaTypes == {"abort", "canplay", "canplaythrough", "durationchange", "emptied", "encrypted",
               "ended", "error", "loadeddata", "loadedmetadata", "loadstart", "pause", "play",
               "playing", "progress", "ratechange", "seeked", "seeking", "stalled", "suspend",
               "timeupdate", "volumechange", "waiting"}

AnimationTypes == {"animationstart", "animationend", "animationiteration"}

\* the arms of virtual_event_from_websys_event that end in todo!()
TodoTypes ==
    ClipboardTypes \cup CompositionTypes \cup KeyboardTypes \cup FocusTypes \cup FormTypes
    \cup PointerTypes \cup {"select"} \cup TouchTypes \cup {"scroll", "wheel"} \cup MediaTypes
    \cup AnimationTypes \cup {"transitionend", "toggle"}

\* virtual_event_from_websys_event for a native event of type typ, the event
\* being of the interface the browser gives that type
VirtualEventFromWebsysEvent(typ) ==
    IF typ \in TodoTypes THEN "panic"
    ELSE IF typ \in MouseTypes THEN "MouseEvent"
    ELSE "OtherEvent"

\* decode_trigger for an event of type typ whose target element has the
\* attributes at: Err, a panic, or Ok(EventTrigger)
DecodeTrigger(at, typ) ==
    IF ReservationAttr(typ) \notin DOMAIN at THEN [res |-> "err"]
    ELSE LET fields  == SplitN(at[ReservationAttr(typ)], 3, ".")
             gi_id   == ParseU64(fields[1])
             real_id == IF Len(fields) >= 2 THEN ParseU64(fields[2]) ELSE None
         IN  IF ~gi_id.some \/ ~real_id.some THEN [res |-> "err"]
             ELSE IF VirtualEventFromWebsysEvent(typ) = "panic" THEN [res |-> "panic"]
             ELSE [res |-> "ok",
                   trigger |-> [event |-> VirtualEventFromWebsysEvent(typ), typ |-> typ,
                                scope |-> KeyFromFfi(gi_id.val), node |-> real_id.val,
                                priority |-> "High"]]

\* the closures the delegation root calls for an event of type typ
HandlersFor(rl, typ) == SelectSeq(rl, LAMBDA l : l[1] = typ)

\* The browser dispatches an event of type typ at element target, inside the
\* root: every listener of the root for typ runs the handler closure, which
\* decodes the trigger and hands it to the sender callback, which spawns the
\* future that sends it.
Dispatch(target, typ) ==
    /\ pc = "idle"
    /\ dispatched < MaxEvents
    /\ IsElement(kind, target)
    /\ IsInclusiveAncestor(children, RootNode, target)
    /\ dispatched' = dispatched + 1
    /\ last' = [BaseOp EXCEPT !.op = "Dispatch", !.s = typ, !.target = target]
    /\ UNCHANGED cellVars
    /\ LET k == Len(HandlersFor(rootListeners, typ))
           r == DecodeTrigger(attrs[target], typ)
       IN  /\ tasks' = IF r.res = "ok" THEN tasks \o [i \in 1..k |-> r.trigger] ELSE tasks
           /\ dropped' = IF r.res = "err" THEN dropped \o [i \in 1..k |-> typ] ELSE dropped
           /\ pc' = IF r.res = "panic" /\ k > 0 THEN "panicked" ELSE pc
    /\ UNCHANGED <<interpVars, domVars, listenerVars, chan, received, step>>

\* send as it would be on a channel of capacity one that drops a trigger
\* when it is full
ChanSendLossy(ch, ev) == IF Len(ch) >= 1 THEN ch ELSE Append(ch, ev)

\* send on the unbounded channel: the trigger goes to the back of the channel,
\* whatever the channel holds
ChanSend(ch, ev) == Append(ch, ev)

\* The executor runs a spawned future: c.send(ev).await.  The channel is
\* unbounded, so the send completes in the one poll.  Every event has a
\* future of its own, and the code leaves the order in which the futures are
\* polled to the executor: any of the futures spawned and not yet run may be
\* the one that runs.
RunSendTask ==
    /\ pc = "idle"
    /\ \E t \in DOMAIN tasks :
          /\ chan' = ChanSend(chan, tasks[t])
          /\ tasks' = [i \in 1..(Len(tasks) - 1) |-> IF i < t THEN tasks[i] ELSE tasks[i + 1]]
    /\ last' = [BaseOp EXCEPT !.op = "send"]
    /\ UNCHANGED cellVars
    /\ UNCHANGED <<interpVars, domVars, listenerVars, received, dispatched, dropped, pc, step>>

\* wait_for_event returns the oldest trigger of the channel
WaitForEvent ==
    /\ pc = "idle"
    /\ chan # <<>>
    /\ received' = Append(received, Head(chan))
    /\ chan' = Tail(chan)
    /\ last' = [BaseOp EXCEPT !.op = "wait_for_event"]
    /\ UNCHANGED cellVars
    /\ UNCHANGED <<interpVars, domVars, listenerVars, tasks, dispatched, dropped, pc, step>>

\* the node ids the edit streams carry: 1 decodes to the key of the root slot
\* (index 1, version 0 forced to 1), 2 names a slot that holds nothing
TreeIds == {U64(0, 0, 0, 1), U64(0, 0, 0, 2)}

\* ids only looked up: 0x1_0000_0001 is the root key as as_ffi gives it, and
\* 0x2_0000_0001 decodes to version 3, which the root slot does not have
LookupIds == TreeIds \cup {U64(0, 1, 0, 1), U64(0, 2, 0, 1)}

ManyArgs == 0..3

\* The tree specification: the instructions that build and rearrange the tree.
NextTree ==
    \/ ProcessEdits
    \/ ProcessEditsReturn
    \/ \E id \in LookupIds : PushRoot(id)
    \/ PopRoot
    \/ StackClear
    \/ \E many \in ManyArgs : AppendChildren(many)
    \/ \E many \in 0..2 : ReplaceWith(many)
    \/ Remove
    \/ RemoveAllChildren
    \/ \E id \in TreeIds : CreateTextNode("a", id)
    \/ \E id \in TreeIds : CreateElement("div", id)
    \/ \E id \in TreeIds : CreatePlaceholder(id)

Spec == Init /\ [][NextTree]_vars

\* the owning components of the listeners: slotmap keys (version odd)
ScopeIds == {[idx |-> <<0, 42>>, version |-> <<0, 1>>], [idx |-> <<65535, 65535>>, version |-> <<65535, 65535>>]}

\* the node ids listeners are registered with: 7 and 2^64 - 1
RealIds == {U64(0, 0, 0, 7), U64(65535, 65535, 65535, 65535)}

\* the (owning component, node id) pairs of the registrations
Registrations == {<<[idx |-> <<0, 42>>, version |-> <<0, 1>>], U64(0, 0, 0, 7)>>,
                  <<[idx |-> <<65535, 65535>>, version |-> <<65535, 65535>>], U64(65535, 65535, 65535, 65535)>>}

\* "onclick", "onkeydown"
EventNames == {<<"on", "click">>, <<"on", "keydown">>}

EventTypes == {"click", "keydown"}

\* attribute values written by hand: "42.7", "x.7", "42" and "7.+1.9"
RawValues == {<<"4", "2", ".", "7">>, <<"x", ".", "7">>, <<"4", "2">>, <<"7", ".", "+", "1", ".", "9">>}

\* The listener specification: listeners are registered on the top of the stack.
NextListeners ==
    \/ ProcessEdits
    \/ ProcessEditsReturn
    \/ StackClear
    \/ PushRoot(U64(0, 0, 0, 1))
    \/ PopRoot
    \/ CreateElement("div", U64(0, 0, 0, 1))
    \/ CreateTextNode("a", U64(0, 0, 0, 1))
    \/ \E e \in EventNames, r \in Registrations : NewEventListener(e, r[1], r[2])
    \/ \E e \in EventNames : RemoveEventListener(e)

SpecListeners == Init /\ [][NextListeners]_vars

\* The event specification: listeners are registered on elements of the tree,
\* reservation attributes are also written by SetAttribute, and the browser
\* dispatches events.
NextEvents ==
    \/ ProcessEdits
    \/ ProcessEditsReturn
    \/ StackClear
    \/ step < MaxEventEdits /\ PushRoot(U64(0, 0, 0, 1))
    \/ step < MaxEventEdits /\ CreateElement("div", U64(0, 0, 0, 1))
    \/ step < MaxEventEdits /\ AppendChildren(1)
    \/ step < MaxEventEdits /\ \E e \in EventNames, r \in Registrations : NewEventListener(e, r[1], r[2])
    \/ step < MaxEventEdits /\ \E v \in RawValues : SetAttribute(ReservationAttr("click"), v, "")
    \/ \E t \in NodeIds, typ \in EventTypes : Dispatch(t, typ)
    \/ RunSendTask
    \/ WaitForEvent

SpecEvents == Init /\ [][NextEvents]_vars

\* The delivery specification: click listeners are registered, the browser
\* dispatches events, the executor runs the send tasks and the consumer waits
\* for the triggers.
NextDelivery ==
    \/ ProcessEdits
    \/ ProcessEditsReturn
    \/ StackClear
    \/ step < MaxDeliveryEdits /\ PushRoot(U64(0, 0, 0, 1))
    \/ step < MaxDeliveryEdits /\ CreateElement("div", U64(0, 0, 0, 1))
    \/ step < MaxDeliveryEdits /\ AppendChildren(1)
    \/ step < MaxDeliveryEdits /\ \E r \in Registrations : NewEventListener(<<"on", "click">>, r[1], r[2])
    \/ \E t \in NodeIds, typ \in EventTypes : Dispatch(t, typ)
    \/ RunSendTask
    \/ WaitForEvent

SpecDelivery == Init /\ [][NextDelivery]_vars

\* The delivery specification with its scheduling.  process_edits is a
\* synchronous loop over a finite list of instructions, so a stream that has
\* started returns.  The executor polls a spawned future whenever the
\* synchronous code has returned, and the consumer calls wait_for_event again
\* and again: a send task, and a wait_for_event on a channel that holds a
\* trigger, that can run again and again does run.
SpecDeliveryFair ==
    /\ Init /\ [][NextDelivery]_vars
    /\ WF_vars(ProcessEditsReturn)
    /\ SF_vars(RunSendTask)
    /\ SF_vars(WaitForEvent)

(***************************************************************************)
(* Widgets.  The user of the page changes the live state of the widgets in *)
(* the document, which makes the state dirty: it no longer follows the     *)
(* content attribute.                                                      *)
(***************************************************************************)
\* what the user does to a widget: types text into an input, clicks a
\* checkbox, picks or unpicks an option
UserActs == {"type", "check", "pick"}

\* the live state of a widget of tag tg after the user acted on it
LiveAfterUser(lv, tg, act) ==
    IF tg = "input" /\ act = "type" THEN [lv EXCEPT !.value = <<"b">>, !.vdirty = TRUE]
    ELSE IF tg = "input" /\ act = "check" THEN [lv EXCEPT !.checked = ~@, !.cdirty = TRUE]
    ELSE IF tg = "option" /\ act = "pick" THEN [lv EXCEPT !.selected = ~@, !.sdirty = TRUE]
    ELSE lv

\* The user acts on widget n of the document, between two streams.
UserInput(n, act) ==
    /\ pc = "idle"
    /\ IsElement(kind, n)
    /\ IsInclusiveAncestor(children, RootNode, n)
    /\ LiveAfterUser(live[n], WidgetTag(tag, ns, n), act) # live[n]
    /\ live' = [live EXCEPT ![n] = LiveAfterUser(@, WidgetTag(tag, ns, n), act)]
    /\ last' = [BaseOp EXCEPT !.op = "UserInput", !.s = act, !.target = n]
    /\ UNCHANGED cellVars
    /\ UNCHANGED <<interpVars, nodeCount, kind, tag, ns, children, text, attrs, listenerVars, eventVars, pc, step>>

\* the attribute names of the streams: "value", "checked", "selected", "class"
AttrNames == {<<"value">>, <<"checked">>, <<"selected">>, <<"class">>}

\* the tags of the elements the streams create
WidgetTags == {"input", "option"}

\* The widget specification: widgets are created and put into the document,
\* their attributes are set and removed, and the user acts on them.
NextWidgets ==
    \/ ProcessEdits
    \/ ProcessEditsReturn
    \/ StackClear
    \/ step < MaxWidgetEdits /\ PushRoot(U64(0, 0, 0, 1))
    \/ step < MaxWidgetEdits /\ nodeCount < RootNode + MaxWidgets /\ \E tg \in WidgetTags : CreateElement(tg, U64(0, 0, 0, 1))
    \/ step < MaxWidgetEdits /\ nodeCount < RootNode + MaxWidgets /\ CreateElementNs("input", U64(0, 0, 0, 1), SvgNs)
    \/ step < MaxWidgetEdits /\ AppendChildren(1)
    \/ step < MaxWidgetEdits /\ \E name \in AttrNames : SetAttribute(name, <<"a">>, "")
    \/ step < MaxWidgetEdits /\ \E name \in AttrNames : RemoveAttribute(name)
    \/ \E n \in NodeIds, act \in UserActs : UserInput(n, act)

SpecWidgets == Init /\ [][NextWidgets]_vars

\* the texts SetText writes: "" and "b"
Texts == {"", "b"}

\* The specification of the top of the stack: the instructions that pop
\* nodes and those that write the node on top.
NextTop ==
    \/ ProcessEdits
    \/ ProcessEditsReturn
    \/ step < MaxTopEdits /\ PushRoot(U64(0, 0, 0, 1))
    \/ step < MaxTopEdits /\ PopRoot
    \/ StackClear
    \/ step < MaxTopEdits /\ CreateElement("div", U64(0, 0, 0, 1))
    \/ step < MaxTopEdits /\ CreateElementNs("input", U64(0, 0, 0, 1), SvgNs)
    \/ step < MaxTopEdits /\ CreateTextNode("a", U64(0, 0, 0, 1))
    \/ step < MaxTopEdits /\ \E many \in 0..2 : AppendChildren(many)
    \/ step < MaxTopEdits /\ ReplaceWith(1)
    \/ step < MaxTopEdits /\ \E txt \in Texts : SetText(txt)
    \/ step < MaxTopEdits /\ \E name \in {<<"value">>, <<"class">>}, nsArg \in {"", SvgNs} : SetAttribute(name, <<"a">>, nsArg)
    \/ step < MaxTopEdits /\ \E name \in {<<"value">>, <<"class">>} : RemoveAttribute(name)
    \/ step < MaxTopEdits /\ \E e \in EventNames : NewEventListener(e, [idx |-> <<0, 42>>, version |-> <<0, 1>>], U64(0, 0, 0, 7))

SpecTop == Init /\ [][NextTop]_vars

\* The specification of the owner's use of the public stack: between two
\* streams the owner of the WebsysDom pushes the root it holds, pops, or
\* clears the stack.
NextOwner ==
    \/ ProcessEdits
    \/ ProcessEditsReturn
    \/ StackClear
    \/ OwnerPush(RootNode)
    \/ OwnerPop
    \/ step < MaxOwnerEdits /\ PushRoot(U64(0, 0, 0, 1))
    \/ step < MaxOwnerEdits /\ PopRoot
    \/ step < MaxOwnerEdits /\ CreateElement("div", U64(0, 0, 0, 1))
    \/ step < MaxOwnerEdits /\ AppendChildren(1)

SpecOwner == Init /\ [][NextOwner]_vars

(***************************************************************************)
(* The render cell of any_props.rs.  Props values carry their concrete     *)
(* type: [type, val].  A render function (Component<P>) and a comparator   *)
(* (fn(&P, &P) -> bool) are named, and what they do is given by            *)
(* CallRenderFn and CallMemo.                                              *)
(***************************************************************************)
PropTypes == {"A", "B"}

PropVals == 0..1

ComponentNames == {"App"}

RenderFns == {"always_panics", "returns_none", "returns_tree"}

MemoFns == {"eq", "never"}

\* (self.render_fn)(props): the function unwinds, or returns None or Some(tree)
CallRenderFn(f, props) ==
    IF f = "always_panics" THEN [res |-> "panic"]
    ELSE IF f = "returns_none" THEN [res |-> "none"]
    ELSE [res |-> "some", tree |-> <<"tree", props.type, props.val>>]

\* (self.memo)(a, b)
CallMemo(m, a, b) == IF m = "eq" THEN a.val = b.val ELSE FALSE

\* RenderReturn::default()
RenderDefault == [tag |-> "Default"]

\* the state of the web renderer, which a call on a cell leaves alone
webVars == <<interpVars, domVars, listenerVars, eventVars, pc, step>>

\* new_any_props
NewAnyProps(render_fn, memo, props, name) ==
    /\ Len(cells) < MaxCells
    /\ cells' = Append(cells, [render_fn |-> render_fn, memo |-> memo, props |-> props, name |-> name])
    /\ ret' = [tag |-> "cell", cell |-> Len(cells) + 1]
    /\ UNCHANGED logged
    /\ last' = [BaseOp EXCEPT !.op = "new_any_props", !.target = Len(cells) + 1]
    /\ UNCHANGED webVars

\* render as it would be without catch_unwind: the panic leaves render
RenderReturnUncaught(cell) ==
    LET res == CallRenderFn(cell.render_fn, cell.props)
    IN  IF res.res = "some" THEN [ret |-> [tag |-> "Ready", tree |-> res.tree], log |-> {}]
        ELSE IF res.res = "none" THEN [ret |-> RenderDefault, log |-> {}]
        ELSE [ret |-> [tag |-> "unwind"], log |-> {}]

\* VProps::render: the render function runs on a clone of the props inside
\* catch_unwind, and the three arms of the match give the RenderReturn; the
\* Err arm logs the component name
RenderReturn(cell) ==
    LET res == CallRenderFn(cell.render_fn, cell.props)
    IN  IF res.res = "some" THEN [ret |-> [tag |-> "Ready", tree |-> res.tree], log |-> {}]
        ELSE IF res.res = "none" THEN [ret |-> RenderDefault, log |-> {}]
        ELSE [ret |-> RenderDefault, log |-> {cell.name}]

\* AnyProps::render on cell c
Render(c) ==
    /\ c \in 1..Len(cells)
    /\ ret' = RenderReturn(cells[c]).ret
    /\ logged' = logged \cup RenderReturn(cells[c]).log
    /\ last' = [BaseOp EXCEPT !.op = "render", !.target = c]
    /\ UNCHANGED <<cells, webVars>>

\* memoize as it would be if the candidate were compared whatever its type
MemoizeReturnUntyped(cell, other) ==
    [tag |-> "bool", val |-> CallMemo(cell.memo, cell.props, other), compared |-> TRUE]

\* VProps::memoize: downcast_ref::<P>() of the candidate, then the comparator;
\* compared tells whether the comparator was called
MemoizeReturn(cell, other) ==
    IF other.type = cell.props.type
    THEN [tag |-> "bool", val |-> CallMemo(cell.memo, cell.props, other), compared |-> TRUE]
    ELSE [tag |-> "bool", val |-> FALSE, compared |-> FALSE]

\* AnyProps::memoize on cell c with the candidate other
Memoize(c, other) ==
    /\ c \in 1..Len(cells)
    /\ ret' = MemoizeReturn(cells[c], other)
    /\ last' = [BaseOp EXCEPT !.op = "memoize", !.target = c, !.value = <<other.type, other.val>>]
    /\ UNCHANGED <<cells, logged, webVars>>

\* AnyProps::props on cell c
Props(c) ==
    /\ c \in 1..Len(cells)
    /\ ret' = [tag |-> "props", props |-> cells[c].props]
    /\ last' = [BaseOp EXCEPT !.op = "props", !.target = c]
    /\ UNCHANGED <<cells, logged, webVars>>

\* duplicate as it would be if the new box were given default props
DuplicateCellDefault(cell) ==
    [render_fn |-> cell.render_fn, memo |-> cell.memo, props |-> [type |-> cell.props.type, val |-> 0], name |-> cell.name]

\* VProps::duplicate: a new box with the same functions and name and a clone
\* of the props
DuplicateCell(cell) ==
    [render_fn |-> cell.render_fn, memo |-> cell.memo, props |-> cell.props, name |-> cell.name]

\* AnyProps::duplicate on cell c
Duplicate(c) ==
    /\ c \in 1..Len(cells)
    /\ Len(cells) < MaxCells
    /\ cells' = Append(cells, DuplicateCell(cells[c]))
    /\ ret' = [tag |-> "cell", cell |-> Len(cells) + 1]
    /\ UNCHANGED logged
    /\ last' = [BaseOp EXCEPT !.op = "duplicate", !.target = c]
    /\ UNCHANGED webVars

\* The owner of cell c puts a new box in its place: the same component with
\* new props of the same type
ReplaceProps(c, props) ==
    /\ c \in 1..Len(cells)
    /\ props.type = cells[c].props.type
    /\ props # cells[c].props
    /\ cells' = [cells EXCEPT ![c] = [render_fn |-> cells[c].render_fn, memo |-> cells[c].memo, props |-> props, name |-> cells[c].name]]
    /\ ret' = [tag |-> "cell", cell |-> c]
    /\ UNCHANGED logged
    /\ last' = [BaseOp EXCEPT !.op = "replace_props", !.target = c, !.value = <<props.type, props.val>>]
    /\ UNCHANGED webVars

PropValues == [type : PropTypes, val : PropVals]

\* The cell specification: cells are made, rendered, compared and duplicated.
NextProps ==
    \/ \E f \in RenderFns, m \in MemoFns, pr \in PropValues, name \in ComponentNames : NewAnyProps(f, m, pr, name)
    \/ \E c \in 1..MaxCells : Render(c)
    \/ \E c \in 1..MaxCells, other \in PropValues : Memoize(c, other)
    \/ \E c \in 1..MaxCells : Props(c)
    \/ \E c \in 1..MaxCells : Duplicate(c)
    \/ \E c \in 1..MaxCells, pr \in PropValues : ReplaceProps(c, pr)

SpecProps == Init /\ [][NextProps]_vars

(***************************************************************************)
(* Properties of the edit interpreter.                                     *)
(***************************************************************************)
\* the step applies one instruction of kind op
Applies(op) == step' = step + 1 /\ last'.op = op

NonComment(kd, s) == SelectSeq(s, LAMBDA c : kd[c] # "comment")

\* s has no element twice
Distinct(s) == \A i, j \in 1..Len(s) : i # j => s[i] # s[j]

\* C1: AppendChildren(n) on a stack of at least n+1 nodes removes exactly the
\* n top nodes, leaves the node at position len-(1+n) on top, and appends the
\* removed nodes to it in the order in which they were pushed.  Stated for
\* the stacks on which the native tree accepts every append: the parent is an
\* element, the n nodes are distinct and none of them is the parent or an
\* ancestor of it.
C1_AppendInPushOrder ==
    [][Applies("AppendChildren") /\ Len(stack) >= last'.many + 1 =>
        LET n      == last'.many
            parent == stack[Len(stack) - n]
            popped == SubSeq(stack, Len(stack) - n + 1, Len(stack))
            now    == NonComment(kind', children'[parent])
        IN  (/\ kind[parent] = "element"
             /\ Distinct(popped)
             /\ \A c \in Range(popped) : ~IsInclusiveAncestor(children, c, parent))
            => /\ stack' = SubSeq(stack, 1, Len(stack) - n)
               /\ Last(stack') = parent
               /\ Len(now) >= n
               /\ SubSeq(now, Len(now) - n + 1, Len(now)) = popped
    ]_vars

\* C2: no parent of the native tree has two text nodes as adjacent children
C2_NoAdjacentText ==
    \A p \in NodeIds : \A i \in 1..(Len(children[p]) - 1) :
        ~(kind[children[p][i]] = "text" /\ kind[children[p][i + 1]] = "text")

\* C6: PushRoot(id) with an id the registry does not hold stops the stream at
\* that instruction: the panic is raised, no handle is pushed, the registry,
\* the tree and the listeners stay as the earlier instructions left them, and
\* no later instruction is applied
C6_UnknownIdAborts ==
    [][/\ (Applies("PushRoot") /\ KeyFromFfi(last'.id) \notin DOMAIN nodes)
            => (pc' = "panicked" /\ UNCHANGED <<interpVars, domVars, listenerVars>>)
       /\ pc = "panicked"
            => (pc' = "panicked" /\ UNCHANGED <<interpVars, domVars, listenerVars, step>>)
    ]_vars

\* C6 witness: a stream stopped by a PushRoot of an unknown id after earlier
\* instructions created a node and left a handle on the stack
C6_Witness ==
    /\ pc = "panicked"
    /\ last.op = "PushRoot"
    /\ KeyFromFfi(last.id) \notin DOMAIN nodes
    /\ nodeCount > RootNode
    /\ Len(stack) > 0

CreateOps == {"CreateElement", "CreateElementNs", "CreateTextNode", "CreatePlaceholder"}

\* C7: a create instruction makes a fresh node, registers it under id whether
\* or not id had an entry, and pushes it: the instruction completes, lookup(id)
\* gives the new node, which is the top of a stack one higher
C7_CreateRegisters ==
    [][step' = step + 1 /\ last'.op \in CreateOps =>
        /\ pc' = pc
        /\ Len(stack') = Len(stack) + 1
        /\ kind[Last(stack')] = "none"
        /\ KeyFromFfi(last'.id) \in DOMAIN nodes'
        /\ nodes'[KeyFromFfi(last'.id)] = Last(stack')
    ]_vars

\* C8: ReplaceWith(n) with n other than 1 fails loudly
C8_ReplaceArityFails ==
    [][Applies("ReplaceWith") /\ last'.many # 1 => pc' = "panicked"]_vars

(***************************************************************************)
(* Properties of the event delegation.                                     *)
(***************************************************************************)
\* the event types a registration or a dispatch of the model can name
AllTypes == {SplitAt2(e) : e \in EventNames} \cup EventTypes

RegisteredTimes(c) == IF c \in DOMAIN registered THEN registered[c] ELSE 0

\* C3: a type registered k >= 1 times has exactly one native listener on the
\* delegation root, the closure of its table entry, and the count k; a type
\* never registered has none; and no closure was made beyond the one of each
\* type's first registration
C3_OneListenerPerType ==
    /\ \A c \in AllTypes :
        IF RegisteredTimes(c) >= 1
        THEN /\ c \in DOMAIN listeners
             /\ listeners[c].count = RegisteredTimes(c)
             /\ HandlersFor(rootListeners, c) = <<<<c, listeners[c].closure>>>>
        ELSE /\ c \notin DOMAIN listeners
             /\ HandlersFor(rootListeners, c) = <<>>
    /\ closureCount = Cardinality(DOMAIN listeners)

\* C3 witness: one type registered twice and another one once
C3_Witness ==
    /\ RegisteredTimes("click") = 2
    /\ RegisteredTimes("keydown") = 1
    /\ last.op = "NewEventListener"
    /\ pc = "applying"

\* a field of the reservation value that reads as a number: an optional "+"
\* and one or more decimal digits
Numeric(f) ==
    LET body == IF Len(f) > 0 /\ f[1] = "+" THEN Tail(f) ELSE f
    IN  Len(body) > 0 /\ \A i \in 1..Len(body) : IsDigit(body[i])

\* the element has no reservation attribute for typ, or one whose component
\* id or node id field is missing or not a number
Malformed(at, typ) ==
    \/ ReservationAttr(typ) \notin DOMAIN at
    \/ LET fields == SplitN(at[ReservationAttr(typ)], 3, ".")
       IN  ~Numeric(fields[1]) \/ Len(fields) < 2 \/ ~Numeric(fields[2])

\* the step is the dispatch of a native event that reaches a handler closure
Dispatches == dispatched' = dispatched + 1 /\ HandlersFor(rootListeners, last'.s) # <<>>

\* C4: a native event whose origin element carries the reservation attribute
\* that NewEventListener(event, s, n) wrote for the event's type is decoded to
\* a trigger carrying exactly the component s and the node n
C4_ReservationRoundTrip ==
    [][Dispatches =>
        \A r \in ScopeIds \X RealIds :
            (/\ ReservationAttr(last'.s) \in DOMAIN attrs[last'.target]
             /\ attrs[last'.target][ReservationAttr(last'.s)] = FormatReservation(r[1], r[2]))
            => /\ pc' = "idle"
               /\ Len(tasks') = Len(tasks) + 1
               /\ Last(tasks').scope = r[1]
               /\ Last(tasks').node = r[2]
    ]_vars

\* C5: an event whose origin element has no reservation attribute for its
\* type, or a malformed one, is dropped: nothing is sent, the handler does not
\* panic and the listener table is unchanged; and once an event of a type was
\* dropped, a well-formed event of that type is still decoded and delivered
C5_MalformedIsDropped ==
    [][Dispatches =>
        /\ Malformed(attrs[last'.target], last'.s)
            => /\ pc' = "idle"
               /\ UNCHANGED <<tasks, chan, received, listenerVars>>
               /\ dropped' = Append(dropped, last'.s)
        /\ (~Malformed(attrs[last'.target], last'.s) /\ last'.s \in Range(dropped))
            => /\ pc' = "idle"
               /\ Len(tasks') = Len(tasks) + 1
               /\ Last(tasks').typ = last'.s
    ]_vars

(***************************************************************************)
(* Properties of the render cell.                                          *)
(***************************************************************************)
\* C9: render() never propagates a failure.  Whenever a cell is rendered,
\* the call returns: the default RenderReturn if the render function
\* panics, the default RenderReturn if it returns no tree, and Ready with
\* the tree if it returns one.  The render leaves every cell's stored
\* fields as they were, so a render of another cell after a failing one
\* gives what that cell's own function gives.
C9_RenderNeverPropagates ==
    [][last'.op = "render" =>
        LET cell == cells[last'.target]
            res == CallRenderFn(cell.render_fn, cell.props)
        IN  /\ ret'.tag # "unwind"
            /\ res.res = "panic" => ret' = RenderDefault
            /\ res.res = "none" => ret' = RenderDefault
            /\ res.res = "some" => ret' = [tag |-> "Ready", tree |-> res.tree]
            /\ cells' = cells]_vars

\* a render failed and was logged, and the render of another cell after it
\* returned Ready with that cell's tree
C9_Witness ==
    /\ logged # {}
    /\ last.op = "render"
    /\ ret.tag = "Ready"
    /\ \E c \in 1..Len(cells) :
        /\ c # last.target
        /\ cells[c].render_fn = "always_panics"
        /\ cells[c].name \in logged

\* C10: memoize(candidate) returns false without calling the comparator
\* whenever the candidate's concrete type differs from the type of the
\* stored props; when the types match it returns what the comparator given
\* at construction returns on (stored props, candidate).  memoize leaves
\* the stored props of every cell as they were.
C10_MemoizeTypeChecked ==
    [][last'.op = "memoize" =>
        LET cell == cells[last'.target]
            other == [type |-> last'.value[1], val |-> last'.value[2]]
        IN  /\ other.type # cell.props.type =>
                /\ ret'.val = FALSE
                /\ ~ret'.compared
            /\ other.type = cell.props.type =>
                /\ ret'.val = CallMemo(cell.memo, cell.props, other)
                /\ ret'.compared
            /\ cells' = cells]_vars

\* a candidate of another type that the comparator would have called equal
\* was answered with false
C10_Witness ==
    /\ last.op = "memoize"
    /\ last.target \in 1..Len(cells)
    /\ cells[last.target].memo = "eq"
    /\ last.value[1] # cells[last.target].props.type
    /\ last.value[2] = cells[last.target].props.val
    /\ ret = [tag |-> "bool", val |-> FALSE, compared |-> FALSE]

(***************************************************************************)
(* Properties of the delivery of triggers.                                 *)
(***************************************************************************)
\* the triggers decoded and not yet handed to the consumer, with those the
\* consumer has, in the order they travel
Pipeline == received \o chan \o tasks

C12_LeftoverStackFlagged ==
    [][/\ (last'.op = "return" /\ stack # <<>>) => pc' = "panicked"
       /\ last'.op = "process_edits" => stack = <<>>]_vars

(***************************************************************************)
(* Properties of the event categories.                                     *)
(***************************************************************************)
\* C13: for every event category a listener can be registered for, the
\* dispatch of a native event whose origin element carries a well-formed
\* reservation attribute for the event's type puts exactly one trigger of
\* that type, tagged with its category, on the way to the channel, and the
\* dispatch path does not crash.
C13_EveryCategoryTriggers ==
    [][(Dispatches /\ ~Malformed(attrs[last'.target], last'.s)) =>
        /\ pc' # "panicked"
        /\ tasks' = Append(tasks, Last(tasks'))
        /\ Last(tasks').typ = last'.s
        /\ Last(tasks').event \in {"MouseEvent", "OtherEvent"}
    ]_vars

(***************************************************************************)
(* Properties of the removals.                                             *)
(***************************************************************************)
\* C14: Remove, applied with a node on top of the stack, detaches that node
\* from its parent in the native tree and takes it off the stack, which gets
\* one lower; the instruction completes and the stream goes on.
C14_RemoveDetachesTop ==
    [][(Applies("Remove") /\ stack # <<>>) =>
        /\ pc' = "applying"
        /\ stack' = Front(stack)
        /\ ParentOf(children', Last(stack)) = NoNode
    ]_vars

\* C15: RemoveEventListener(event_name) lowers the count of the event type by
\* one, and when the count comes back to 0 the native listener of the type is
\* taken off the delegation root: the root has a native listener for a type
\* exactly while the count of the type is at least 1.
C15_RemoveListenerCounts ==
    [][(Applies("RemoveEventListener") /\ SplitAt2(last'.name) \in DOMAIN listeners) =>
        LET typ == SplitAt2(last'.name)
            after == IF typ \in DOMAIN listeners' THEN listeners'[typ].count ELSE 0
        IN  /\ pc' = "applying"
            /\ after = listeners[typ].count - 1
            /\ Len(HandlersFor(rootListeners', typ)) = IF after >= 1 THEN 1 ELSE 0
    ]_vars

(***************************************************************************)
(* Properties of the volatile attributes.                                  *)
(***************************************************************************)
\* the step applies RemoveAttribute(name) with a widget of tag tg on top
RemovesOn(tg, name) ==
    /\ Applies("RemoveAttribute")
    /\ last'.name = name
    /\ stack # <<>>
    /\ IsElement(kind, Last(stack))
    /\ WidgetTag(tag, ns, Last(stack)) = tg

\* C16: RemoveAttribute("value") with an input on top of the stack leaves the
\* input's live value empty, and RemoveAttribute("checked") leaves its live
\* checked state false, whether or not the attribute was there and whatever
\* the live state was; RemoveAttribute of another name leaves the live value
\* and the live checked state as they were.
C16_RemoveResetsInput ==
    [][\A name \in AttrNames : RemovesOn("input", name) =>
        LET top == Last(stack)
        IN  /\ pc' = "applying"
            /\ name = <<"value">> => live'[top].value = <<>>
            /\ name = <<"checked">> => live'[top].checked = FALSE
            /\ name # <<"value">> => live'[top].value = live[top].value
            /\ name # <<"checked">> => live'[top].checked = live[top].checked
    ]_vars

\* "value" was removed from an input whose checkbox the user had ticked: the
\* live value is empty and the tick is still there
C16_Witness ==
    /\ last.op = "RemoveAttribute"
    /\ last.name = <<"value">>
    /\ pc = "applying"
    /\ stack # <<>>
    /\ WidgetTag(tag, ns, Last(stack)) = "input"
    /\ live[Last(stack)].vdirty
    /\ live[Last(stack)].cdirty
    /\ live[Last(stack)].checked
    /\ live[Last(stack)].value = <<>>

\* C20: RemoveAttribute("selected") with an option on top of the stack resets
\* the option's live selected state through the property setter: afterwards
\* the option is not selected, whatever its selected state was before.
C20_RemoveUnselectsOption ==
    [][RemovesOn("option", <<"selected">>) =>
        /\ pc' = "applying"
        /\ ~live'[Last(stack)].selected
    ]_vars

(***************************************************************************)
(* Properties of duplicate.                                                *)
(***************************************************************************)
\* C17: duplicate() returns a cell of its own with the same render function,
\* comparator and name and an equal copy of the props: right after the call
\* render() and memoize(x) give the same on both cells and the original is as
\* it was; and when the props of a cell are replaced later, every other cell
\* keeps its props, and so its render and memoize results.
C17_DuplicateIndependent ==
    [][/\ last'.op = "duplicate" =>
            LET c == last'.target
                d == Len(cells) + 1
            IN  /\ Len(cells') = d
                /\ ret' = [tag |-> "cell", cell |-> d]
                /\ \A i \in 1..Len(cells) : cells'[i] = cells[i]
                /\ cells'[d].render_fn = cells[c].render_fn
                /\ cells'[d].memo = cells[c].memo
                /\ cells'[d].name = cells[c].name
                /\ cells'[d].props = cells[c].props
                /\ RenderReturn(cells'[d]) = RenderReturn(cells'[c])
                /\ \A x \in PropValues : MemoizeReturn(cells'[d], x) = MemoizeReturn(cells'[c], x)
       /\ last'.op = "replace_props" =>
            \A i \in 1..Len(cells) : i # last'.target =>
                /\ cells'[i] = cells[i]
                /\ RenderReturn(cells'[i]) = RenderReturn(cells[i])
                /\ \A x \in PropValues : MemoizeReturn(cells'[i], x) = MemoizeReturn(cells[i], x)
    ]_vars

\* a cell that renders a tree from props other than the default was
\* duplicated, and the two cells hold the same
C17_Witness ==
    /\ last.op = "duplicate"
    /\ Len(cells) = 2
    /\ ret = [tag |-> "cell", cell |-> 2]
    /\ cells[1].props.val = 1
    /\ cells[1].render_fn = "returns_tree"
    /\ cells[1].memo = "eq"
    /\ cells[2] = cells[1]

(***************************************************************************)
(* Properties of the replacement.                                          *)
(***************************************************************************)
\* C18: ReplaceWith(1), with new-node on top of the stack and old-node right
\* under it, old-node being a child of a parent, puts new-node at the place
\* old-node had among the children of that parent, detaches old-node, leaves
\* the other children and their order as they were, and leaves the stack one
\* lower with new-node on top.  Stated for two different nodes of which
\* new-node is neither the parent of old-node nor an ancestor of it, which
\* are the replacements the native tree accepts.
C18_ReplaceInPlace ==
    [][(/\ Applies("ReplaceWith")
        /\ last'.many = 1
        /\ Len(stack) >= 2
        /\ ParentOf(children, stack[Len(stack) - 1]) # NoNode
        /\ stack[Len(stack)] # stack[Len(stack) - 1]
        /\ ~IsInclusiveAncestor(children, stack[Len(stack)], ParentOf(children, stack[Len(stack) - 1])))
       => LET new    == stack[Len(stack)]
              old    == stack[Len(stack) - 1]
              p      == ParentOf(children, old)
              others == RemoveAll(children[p], new)
          IN  /\ pc' = "applying"
              /\ stack' = Append(SubSeq(stack, 1, Len(stack) - 2), new)
              /\ ParentOf(children', old) = NoNode
              /\ children'[p] = [i \in 1..Len(others) |-> IF others[i] = old THEN new ELSE others[i]]
              /\ \A q \in NodeIds \ {p} : children'[q] = RemoveAll(children[q], new)
    ]_vars

\* a new node has taken the place of the first of the root's two children:
\* it is on top of the stack right above the root, and the node it replaced
\* is in no child list
C18_Witness ==
    /\ last.op = "ReplaceWith"
    /\ last.many = 1
    /\ pc = "applying"
    /\ Len(stack) = 2
    /\ stack[1] = RootNode
    /\ Len(children[RootNode]) = 2
    /\ children[RootNode][1] = stack[2]
    /\ \E old \in NodeIds :
        /\ kind[old] # "none"
        /\ old # RootNode
        /\ old < stack[2]
        /\ old > children[RootNode][2]
        /\ ParentOf(children, old) = NoNode

(***************************************************************************)
(* Properties of the marker nodes.                                         *)
(***************************************************************************)
\* the comment nodes the step has created
NewMarkers == {n \in NodeIds : kind[n] = "none" /\ kind'[n] = "comment"}

\* C19: a marker node is inserted only between two text nodes appended one
\* after the other to the same parent, and as a child of that parent: every
\* marker that AppendChildren creates is a child of the node the children
\* are appended to, with a text node right before it and a text node right
\* after it among the children of that node; so no marker comes before the
\* first child of a parent or under another node.  Stated for the stacks on
\* which the native tree accepts every append: the parent is an element, the
\* children are distinct and none of them is the parent or an ancestor of it.
C19_MarkerBetweenTexts ==
    [][(Applies("AppendChildren") /\ Len(stack) >= 1 + last'.many) =>
        LET n      == last'.many
            parent == stack[Len(stack) - n]
            popped == SubSeq(stack, Len(stack) - n + 1, Len(stack))
            sibs   == children'[parent]
        IN  (/\ kind[parent] = "element"
             /\ Distinct(popped)
             /\ \A c \in Range(popped) : ~IsInclusiveAncestor(children, c, parent))
            => \A m \in NewMarkers :
                /\ ParentOf(children', m) = parent
                /\ \E i \in 2..(Len(sibs) - 1) :
                    /\ sibs[i] = m
                    /\ kind'[sibs[i - 1]] = "text"
                    /\ kind'[sibs[i + 1]] = "text"
    ]_vars

(***************************************************************************)
(* Properties of the instructions on a stack that is too low.              *)
(***************************************************************************)
\* the instructions that write the node on top of the stack
TopOps == {"SetText", "SetAttribute", "RemoveAttribute", "NewEventListener"}

\* C21: an instruction that needs more stack entries than there are is a loud
\* fault and never a silent no-op: PopRoot on an empty stack, ReplaceWith on
\* fewer than 2 entries, AppendChildren(n) on fewer than n+1 entries, and
\* SetText, SetAttribute, RemoveAttribute and NewEventListener on an empty
\* stack each panic, which ends the stream; AppendChildren(n) on too few
\* entries panics before it pops a node or appends a child.
C21_UnderflowIsLoud ==
    [][step' = step + 1 =>
        /\ (last'.op = "PopRoot" /\ Len(stack) = 0) => pc' = "panicked"
        /\ (last'.op = "ReplaceWith" /\ Len(stack) < 2) => pc' = "panicked"
        /\ (last'.op = "AppendChildren" /\ Len(stack) < last'.many + 1) =>
            /\ pc' = "panicked"
            /\ UNCHANGED <<stack, children, kind, last_node_was_text>>
        /\ (last'.op \in TopOps /\ Len(stack) = 0) =>
            /\ pc' = "panicked"
            /\ UNCHANGED <<domVars, listenerVars>>
    ]_vars

\* AppendChildren(2) was applied to a stack of two nodes: the stream has
\* stopped and the two nodes are still on the stack, not appended
C21_Witness ==
    /\ last.op = "AppendChildren"
    /\ last.many = 2
    /\ Len(stack) = 2
    /\ pc = "panicked"
    /\ \A n \in Range(stack) : n # RootNode => ParentOf(children, n) = NoNode

(***************************************************************************)
(* Properties of the delivery of every trigger.                            *)
(***************************************************************************)
\* the number of times x is in the sequence s
Copies(s, x) == Cardinality({i \in DOMAIN s : s[i] = x})

\* C22: every event that decodes is returned by wait_for_event exactly once,
\* when the send tasks are scheduled fairly and the consumer keeps calling
\* wait_for_event, which a program that has panicked no longer does.  No
\* trigger is lost or duplicated: a dispatch that decodes adds one trigger to
\* those in flight and no other step adds or removes one; a send task moves
\* one trigger from the tasks to the channel; wait_for_event moves one from
\* the channel to the consumer, in whatever order the send tasks run.  When
\* n triggers were decoded, n triggers are eventually received.  The
\* dispatch handler does not wait for the
\* consumer: whatever the tasks and the channel hold, the handler is done in
\* its own step, in which the trigger goes to a new send task and the channel
\* and the consumer are left as they are.  wait_for_event returns only with
\* a trigger of the channel, and cannot return while the channel is empty.
C22_EveryTriggerDeliveredOnce ==
    /\ [][/\ Len(Pipeline') = Len(Pipeline)
                + (IF last'.op = "Dispatch" /\ HandlersFor(rootListeners, last'.s) # <<>>
                      /\ DecodeTrigger(attrs[last'.target], last'.s).res = "ok"
                   THEN 1 ELSE 0)
          /\ \A x \in Range(Pipeline) \cup Range(Pipeline') :
                Copies(Pipeline', x) = Copies(Pipeline, x)
                    + (IF last'.op = "Dispatch" /\ HandlersFor(rootListeners, last'.s) # <<>>
                          /\ DecodeTrigger(attrs[last'.target], last'.s) = [res |-> "ok", trigger |-> x]
                       THEN 1 ELSE 0)
          /\ received' # received =>
                /\ chan # <<>>
                /\ received' = Append(received, Head(chan))
                /\ chan' = Tail(chan)
                /\ tasks' = tasks
          /\ (received' = received /\ chan' # chan) =>
                /\ tasks # <<>>
                /\ Len(tasks') = Len(tasks) - 1
                /\ \E t \in DOMAIN tasks : chan' = Append(chan, tasks[t])]_vars
    /\ \A n \in 1..MaxEvents :
          (Len(Pipeline) >= n) ~> (Len(received) >= n \/ pc = "panicked")
    /\ [][dispatched' # dispatched =>
            /\ chan' = chan
            /\ received' = received
            /\ \A i \in 1..Len(tasks) : tasks'[i] = tasks[i]]_vars
    /\ [](chan = <<>> => ~ENABLED WaitForEvent)

\* two events were dispatched and decoded, and wait_for_event has returned
\* the second trigger: the consumer has the two triggers and nothing is left
\* in the tasks or in the channel
C22_Witness ==
    /\ dispatched = 2
    /\ dropped = <<>>
    /\ Len(received) = 2
    /\ tasks = <<>>
    /\ chan = <<>>
    /\ pc = "idle"
    /\ last.op = "wait_for_event"

(***************************************************************************)
(* Properties of the instructions that write the node on top.              *)
(***************************************************************************)
\* what the document holds of node n
NodeState(n) == <<kind[n], tag[n], ns[n], children[n], text[n], attrs[n], live[n]>>

\* C23: SetText, SetAttribute, RemoveAttribute and NewEventListener, applied
\* to a stack that is not empty, act only on the node on top of the stack.
\* The stack and the node registry are as before; the kind, tag and namespace
\* of the top node are as before, and every other node of the document is as
\* before in its children, text, attributes and live state (SetText on an
\* element may add one new text node, as the only child of the top node).
\* SetText, SetAttribute and RemoveAttribute leave the listener table and the
\* listeners of the root as they are; NewEventListener changes the table for
\* its own event type only.  When NewEventListener faults because the top
\* node is not an element, the listener table, the listeners of the root and
\* the attributes of every node are as before.
C23_OnlyTopIsWritten ==
    [][(step' = step + 1 /\ last'.op \in TopOps /\ Len(stack) > 0) =>
        LET top == stack[Len(stack)]
            typ == SplitAt2(last'.name)
        IN  /\ stack' = stack
            /\ nodes' = nodes
            /\ last_node_was_text' = last_node_was_text
            /\ <<kind'[top], tag'[top], ns'[top]>> = <<kind[top], tag[top], ns[top]>>
            /\ \A n \in 0..nodeCount : n # top => NodeState(n)' = NodeState(n)
            /\ nodeCount' \in {nodeCount, nodeCount + 1}
            /\ nodeCount' = nodeCount + 1 =>
                  /\ last'.op = "SetText"
                  /\ kind'[nodeCount'] = "text"
                  /\ children'[top] = <<nodeCount'>>
            /\ last'.op # "NewEventListener" => UNCHANGED listenerVars
            /\ last'.op = "NewEventListener" =>
                  /\ DOMAIN listeners' \subseteq DOMAIN listeners \cup {typ}
                  /\ \A t \in DOMAIN listeners : t # typ => t \in DOMAIN listeners' /\ listeners'[t] = listeners[t]
                  /\ \A i \in 1..Len(rootListeners) : i <= Len(rootListeners') /\ rootListeners'[i] = rootListeners[i]
                  /\ \A i \in 1..Len(rootListeners') : i > Len(rootListeners) => rootListeners'[i][1] = typ
                  /\ <<children'[top], text'[top], live'[top]>> = <<children[top], text[top], live[top]>>
                  /\ IsElement(kind, top) =>
                        /\ pc' # "panicked"
                        /\ typ \in DOMAIN listeners'
                        /\ ReservationAttr(typ) \in DOMAIN attrs'[top]
                  /\ ~IsElement(kind, top) =>
                        /\ pc' = "panicked"
                        /\ UNCHANGED <<listenerVars, attrs>>
    ]_vars

\* NewEventListener for a second event type was applied with the root and a
\* new element on the stack: the new element carries the reservations of both
\* types, the root below it carries no attribute, and the listener table has
\* an entry for each type
C23_Witness ==
    /\ last.op = "NewEventListener"
    /\ pc = "applying"
    /\ Len(stack) = 2
    /\ stack[1] = RootNode
    /\ stack[2] # RootNode
    /\ attrs[RootNode] = <<>>
    /\ \A typ \in EventTypes : ReservationAttr(typ) \in DOMAIN attrs[stack[2]] /\ typ \in DOMAIN listeners

====
